---- MODULE Spec2Model ----
(***************************************************************************)
(* Schema and data type conversion of datafusion-server                    *)
(* (lib/src/data_source/schema.rs): the external DataType / Field /        *)
(* DataSourceSchema and their conversion to and from the Arrow types.      *)
(*                                                                         *)
(* An external DataType is a record with a field `kind`; an Arrow          *)
(* DataType is a record with a field `arrow`, so that no external value    *)
(* is ever equal to an Arrow value.  Option<T> is a sequence of length     *)
(* at most one: None is the empty one.  A panic! of the Rust               *)
(* code is the value Panic, which every enclosing call passes on           *)
(* (unwinding).                                                            *)
(***************************************************************************)
EXTENDS Integers, Sequences, FiniteSets, TLC

VARIABLES
    mode,           \* what the caller starts from: "export" (a DataType), "import"
                    \* (an Arrow DataType), "schema", "arrow_schema"
    pc,             \* position of the caller
    ext,            \* external DataType given to to_arrow_data_type
    arrow,          \* Arrow DataType: result of the export, or the Arrow input
    imported,       \* from_arrow_data_type(arrow)
    reexported,     \* to_arrow_data_type(imported)
    reimported,     \* from_arrow_data_type(reexported)
    depth,          \* nesting depth of the input built so far
    wide,           \* number of composite (non-List) levels of the input
    path,           \* position of the innermost type inside the input
    schema,         \* DataSourceSchema.fields
    arrow_schema,   \* arrow Schema.fields
    schema_back,    \* result of from_arrow_schema
    arrow_field,    \* result of Field::to_arrow_field
    field_back      \* result of Field::from_arrow_field

vars == <<mode, pc, ext, arrow, imported, reexported, reimported, depth, wide,
          path, schema, arrow_schema, schema_back, arrow_field, field_back>>

(***************************************************************************)
(* Bounds of the model                                                     *)
(***************************************************************************)
MaxDepth == 10      \* deepest nesting of a generated type
MaxWide == 1        \* composite (non-List) levels in a deep type
MaxRichDepth == 1   \* nesting put around the full set of leaf types
MaxFields == 2      \* fields of a generated schema

None == <<>>
Some(x) == <<x>>

\* a value that is no type: the variable has not been computed
NoValue == [kind |-> "-", arrow |-> "-"]
\* the unwinding panic! of a conversion
Panic == [kind |-> "panic!", arrow |-> "panic!"]

(***************************************************************************)
(* enum DataType and its parameter structs                                 *)
(***************************************************************************)
TimeUnit == {"Second", "Millisecond", "Microsecond", "Nanosecond"}
IntervalUnit == {"YearMonth", "DayTime", "MonthDayNano"}
UnionMode == {"Sparse", "Dense"}

\* variants without parameters
SimpleKinds ==
    {"Unknown", "Boolean", "Int8", "Int16", "Int32", "Int64", "UInt8", "UInt16",
     "UInt32", "UInt64", "Integer", "Float16", "Float32", "Float64", "Float",
     "Date32", "Date64", "Date", "String"}

\* the alias variants
AliasKinds == {"Integer", "Float", "Decimal", "Date", "Time"}

\* u8 precision and i8 scale: the ends of the range and a usual value
Precisions == {0, 38, 255}
Scales == {-128, 127}
Timezones == {None, Some("UTC")}

DecimalType == [precision : Precisions, scale : Scales]
TimestampType == [unit : TimeUnit, timezone : Timezones]
TimeType == [unit : TimeUnit]
DurationType == [unit : TimeUnit]
IntervalType == [unit : IntervalUnit]

Simple(k) == [kind |-> k]
List(t) == [kind |-> "List", child_type |-> t]
LargeList(t) == [kind |-> "LargeList", child_type |-> t]
Map(k, v) == [kind |-> "Map", key_type |-> k, value_type |-> v]
Struct(fs) == [kind |-> "Struct", fields |-> fs]
UnionType(ts, m) == [types |-> ts, mode |-> m]
Union(ut) == [kind |-> "Union", union_type |-> ut]

\* every variant that holds no other DataType
DataTypeLeaves ==
    {Simple(k) : k \in SimpleKinds}
    \cup [kind : {"Decimal128", "Decimal256", "Decimal"}, decimal_type : DecimalType]
    \cup [kind : {"Timestamp"}, timestamp_type : TimestampType]
    \cup [kind : {"Time32", "Time64", "Time"}, time_type : TimeType]
    \cup [kind : {"Duration"}, duration_type : DurationType]
    \cup [kind : {"Interval"}, interval_type : IntervalType]

(***************************************************************************)
(* arrow::datatypes: Field, DataType, UnionFields                          *)
(***************************************************************************)
\* arrow::datatypes::Field::new(name, data_type, nullable)
ArrowField(name, data_type, nullable) ==
    [name |-> name, data_type |-> data_type, nullable |-> nullable]

ArrowSimple(k) == [arrow |-> k]

\* Arc<str> of a String
ArcStr(s) == [arc |-> s]

\* UnionFields::new numbering the members by position instead of by their ids
UnionFields_new_positional(type_ids, fields) ==
    [i \in 1..Len(type_ids) |-> <<i - 1, fields[i]>>]

\* UnionFields::new(type_ids, fields): the ids zipped with the fields, in order
UnionFields_new(type_ids, fields) ==
    [i \in 1..Len(type_ids) |-> <<type_ids[i], fields[i]>>]

(***************************************************************************)
(* TimeUnit, IntervalUnit, UnionMode conversions                           *)
(***************************************************************************)
\* to_arrow_time_unit with the Microsecond arm returning Millisecond
to_arrow_time_unit_typo(unit) ==
    CASE unit = "Second" -> "TimeUnit::Second"
      [] unit = "Millisecond" -> "TimeUnit::Millisecond"
      [] unit = "Microsecond" -> "TimeUnit::Millisecond"
      [] unit = "Nanosecond" -> "TimeUnit::Nanosecond"

to_arrow_time_unit(unit) ==
    CASE unit = "Second" -> "TimeUnit::Second"
      [] unit = "Millisecond" -> "TimeUnit::Millisecond"
      [] unit = "Microsecond" -> "TimeUnit::Microsecond"
      [] unit = "Nanosecond" -> "TimeUnit::Nanosecond"

from_arrow_time_unit(time_unit) ==
    CASE time_unit = "TimeUnit::Second" -> "Second"
      [] time_unit = "TimeUnit::Millisecond" -> "Millisecond"
      [] time_unit = "TimeUnit::Microsecond" -> "Microsecond"
      [] time_unit = "TimeUnit::Nanosecond" -> "Nanosecond"

to_arrow_interval_unit(unit) ==
    CASE unit = "YearMonth" -> "IntervalUnit::YearMonth"
      [] unit = "DayTime" -> "IntervalUnit::DayTime"
      [] unit = "MonthDayNano" -> "IntervalUnit::MonthDayNano"

from_arrow_interval_unit(interval_unit) ==
    CASE interval_unit = "IntervalUnit::YearMonth" -> "YearMonth"
      [] interval_unit = "IntervalUnit::DayTime" -> "DayTime"
      [] interval_unit = "IntervalUnit::MonthDayNano" -> "MonthDayNano"

to_arrow_union_mode(m) ==
    CASE m = "Sparse" -> "UnionMode::Sparse"
      [] m = "Dense" -> "UnionMode::Dense"

from_arrow_union_mode(m) ==
    CASE m = "UnionMode::Sparse" -> "Sparse"
      [] m = "UnionMode::Dense" -> "Dense"

into_arrow_timestamp(self) ==
    [arrow |-> "Timestamp",
     unit |-> to_arrow_time_unit(self.unit),
     tz |-> IF self.timezone = None THEN None ELSE Some(ArcStr(self.timezone[1]))]

into_arrow_duration(self) ==
    [arrow |-> "Duration", unit |-> to_arrow_time_unit(self.unit)]

into_arrow_interval(self) ==
    [arrow |-> "Interval", unit |-> to_arrow_interval_unit(self.unit)]

(***************************************************************************)
(* DataType::to_arrow_data_type                                            *)
(***************************************************************************)
\* to_arrow_simple with the Date alias taken for Date32
to_arrow_simple_date_alias(kind) ==
    CASE kind \in {"Date32", "Date"} -> ArrowSimple("Date32")
      [] kind \in {"Int64", "Integer"} -> ArrowSimple("Int64")
      [] kind \in {"Float64", "Float"} -> ArrowSimple("Float64")
      [] kind = "Date64" -> ArrowSimple("Date64")
      [] kind = "String" -> ArrowSimple("Utf8")
      [] kind = "Unknown" -> ArrowSimple("Binary")
      [] OTHER -> ArrowSimple(kind)

\* to_arrow_simple with String exported as LargeUtf8
to_arrow_simple_large_string(kind) ==
    CASE kind \in {"Int64", "Integer"} -> ArrowSimple("Int64")
      [] kind \in {"Float64", "Float"} -> ArrowSimple("Float64")
      [] kind \in {"Date64", "Date"} -> ArrowSimple("Date64")
      [] kind = "String" -> ArrowSimple("LargeUtf8")
      [] kind = "Unknown" -> ArrowSimple("Binary")
      [] OTHER -> ArrowSimple(kind)

\* the arms of the variants without parameters
to_arrow_simple(kind) ==
    CASE kind = "Boolean" -> ArrowSimple("Boolean")
      [] kind = "Int8" -> ArrowSimple("Int8")
      [] kind = "Int16" -> ArrowSimple("Int16")
      [] kind = "Int32" -> ArrowSimple("Int32")
      [] kind \in {"Int64", "Integer"} -> ArrowSimple("Int64")
      [] kind = "UInt8" -> ArrowSimple("UInt8")
      [] kind = "UInt16" -> ArrowSimple("UInt16")
      [] kind = "UInt32" -> ArrowSimple("UInt32")
      [] kind = "UInt64" -> ArrowSimple("UInt64")
      [] kind = "Float16" -> ArrowSimple("Float16")
      [] kind = "Float32" -> ArrowSimple("Float32")
      [] kind \in {"Float64", "Float"} -> ArrowSimple("Float64")
      [] kind = "Date32" -> ArrowSimple("Date32")
      [] kind \in {"Date64", "Date"} -> ArrowSimple("Date64")
      [] kind = "String" -> ArrowSimple("Utf8")
      [] kind = "Unknown" -> ArrowSimple("Binary")

\* the arms of the Decimal and Time variants
to_arrow_parametric(t) ==
    CASE t.kind = "Decimal128" ->
            [arrow |-> "Decimal128", precision |-> t.decimal_type.precision,
             scale |-> t.decimal_type.scale]
      [] t.kind \in {"Decimal", "Decimal256"} ->
            [arrow |-> "Decimal256", precision |-> t.decimal_type.precision,
             scale |-> t.decimal_type.scale]
      [] t.kind \in {"Time32", "Time"} ->
            [arrow |-> "Time32", unit |-> to_arrow_time_unit(t.time_type.unit)]
      [] t.kind = "Time64" ->
            [arrow |-> "Time64", unit |-> to_arrow_time_unit(t.time_type.unit)]

\* the element field of a List or LargeList
to_arrow_item_field(child) == ArrowField("item", child, TRUE)

\* to_arrow_map_entry with the nullable flags of key and value exchanged
to_arrow_map_entry_flags(key, value) ==
    ArrowField("entry",
               [arrow |-> "Struct",
                fields |-> <<ArrowField("key", key, TRUE),
                             ArrowField("value", value, FALSE)>>],
               FALSE)

\* the entry field of a Map
to_arrow_map_entry(key, value) ==
    ArrowField("entry",
               [arrow |-> "Struct",
                fields |-> <<ArrowField("key", key, FALSE),
                             ArrowField("value", value, TRUE)>>],
               FALSE)

\* the field of a Struct member
to_arrow_struct_field(name, data_type) == ArrowField(name, data_type, TRUE)

\* the Union arm, the members' types already converted
to_arrow_union(types, member_types, m) ==
    LET type_ids == [i \in 1..Len(types) |-> types[i][1]]
        fields == [i \in 1..Len(types) |-> ArrowField("", member_types[i], TRUE)]
    IN  [arrow |-> "Union",
         union_fields |-> UnionFields_new(type_ids, fields),
         mode |-> to_arrow_union_mode(m)]

RECURSIVE to_arrow_data_type(_)
to_arrow_data_type(t) ==
    CASE t.kind \in SimpleKinds -> to_arrow_simple(t.kind)
      [] t.kind \in {"Decimal128", "Decimal256", "Decimal", "Time32", "Time64", "Time"} ->
            to_arrow_parametric(t)
      [] t.kind = "Timestamp" -> into_arrow_timestamp(t.timestamp_type)
      [] t.kind = "Duration" -> into_arrow_duration(t.duration_type)
      [] t.kind = "Interval" -> into_arrow_interval(t.interval_type)
      [] t.kind = "List" ->
            [arrow |-> "List",
             field |-> to_arrow_item_field(to_arrow_data_type(t.child_type))]
      [] t.kind = "LargeList" ->
            [arrow |-> "LargeList",
             field |-> to_arrow_item_field(to_arrow_data_type(t.child_type))]
      [] t.kind = "Map" ->
            [arrow |-> "Map",
             field |-> to_arrow_map_entry(to_arrow_data_type(t.key_type),
                                          to_arrow_data_type(t.value_type)),
             keys_sorted |-> FALSE]
      [] t.kind = "Struct" ->
            [arrow |-> "Struct",
             fields |-> [i \in 1..Len(t.fields) |->
                            to_arrow_struct_field(t.fields[i][1],
                                                  to_arrow_data_type(t.fields[i][2]))]]
      [] t.kind = "Union" ->
            to_arrow_union(t.union_type.types,
                           [i \in 1..Len(t.union_type.types) |->
                               to_arrow_data_type(t.union_type.types[i][2])],
                           t.union_type.mode)

(***************************************************************************)
(* DataType::from_arrow_data_type                                          *)
(***************************************************************************)
\* from_arrow_simple with an arm taking Binary for String
from_arrow_simple_binary(kind) ==
    CASE kind \in {"Boolean", "Int8", "Int16", "Int32", "Int64", "UInt8", "UInt16",
                   "UInt32", "UInt64", "Float16", "Float32", "Float64", "Date32",
                   "Date64"} -> Simple(kind)
      [] kind \in {"Utf8", "Binary"} -> Simple("String")
      [] OTHER -> Simple("Unknown")

\* from_arrow_simple with an arm taking LargeUtf8 for String
from_arrow_simple_large_utf8(kind) ==
    CASE kind \in {"Boolean", "Int8", "Int16", "Int32", "Int64", "UInt8", "UInt16",
                   "UInt32", "UInt64", "Float16", "Float32", "Float64", "Date32",
                   "Date64"} -> Simple(kind)
      [] kind \in {"Utf8", "LargeUtf8"} -> Simple("String")
      [] OTHER -> Simple("Unknown")

\* the arms of the Arrow types without parameters, and the `_` arm
from_arrow_simple(kind) ==
    CASE kind = "Boolean" -> Simple("Boolean")
      [] kind = "Int8" -> Simple("Int8")
      [] kind = "Int16" -> Simple("Int16")
      [] kind = "Int32" -> Simple("Int32")
      [] kind = "Int64" -> Simple("Int64")
      [] kind = "UInt8" -> Simple("UInt8")
      [] kind = "UInt16" -> Simple("UInt16")
      [] kind = "UInt32" -> Simple("UInt32")
      [] kind = "UInt64" -> Simple("UInt64")
      [] kind = "Float16" -> Simple("Float16")
      [] kind = "Float32" -> Simple("Float32")
      [] kind = "Float64" -> Simple("Float64")
      [] kind = "Date32" -> Simple("Date32")
      [] kind = "Date64" -> Simple("Date64")
      [] kind = "Utf8" -> Simple("String")
      [] OTHER -> Simple("Unknown")

\* the arms of the Arrow types with parameters that hold no other type
from_arrow_parametric(n) ==
    CASE n.arrow = "Decimal128" ->
            [kind |-> "Decimal128",
             decimal_type |-> [precision |-> n.precision, scale |-> n.scale]]
      [] n.arrow = "Decimal256" ->
            [kind |-> "Decimal256",
             decimal_type |-> [precision |-> n.precision, scale |-> n.scale]]
      [] n.arrow = "Timestamp" ->
            [kind |-> "Timestamp",
             timestamp_type |->
                [unit |-> from_arrow_time_unit(n.unit),
                 timezone |-> IF n.tz = None THEN None ELSE Some(n.tz[1].arc)]]
      [] n.arrow = "Time32" ->
            [kind |-> "Time32", time_type |-> [unit |-> from_arrow_time_unit(n.unit)]]
      [] n.arrow = "Time64" ->
            [kind |-> "Time64", time_type |-> [unit |-> from_arrow_time_unit(n.unit)]]
      [] n.arrow = "Duration" ->
            [kind |-> "Duration",
             duration_type |-> [unit |-> from_arrow_time_unit(n.unit)]]
      [] n.arrow = "Interval" ->
            [kind |-> "Interval",
             interval_type |-> [unit |-> from_arrow_interval_unit(n.unit)]]

\* the Union arm, the members' types already converted
from_arrow_union(union_fields, member_types, m) ==
    Union(UnionType([i \in 1..Len(union_fields) |->
                        <<union_fields[i][1], member_types[i]>>],
                    from_arrow_union_mode(m)))

\* the Struct arm, the members' types already converted
from_arrow_struct(fields, member_types) ==
    Struct([i \in 1..Len(fields) |-> <<fields[i].name, member_types[i]>>])

\* a conversion of one of the members panicked
AnyPanic(member_types) == \E i \in DOMAIN member_types : member_types[i] = Panic

RECURSIVE from_arrow_data_type(_)
from_arrow_data_type(n) ==
    CASE n.arrow \in {"Decimal128", "Decimal256", "Timestamp", "Time32", "Time64",
                      "Duration", "Interval"} -> from_arrow_parametric(n)
      [] n.arrow = "List" ->
            LET child == from_arrow_data_type(n.field.data_type)
            IN  IF child = Panic THEN Panic ELSE List(child)
      [] n.arrow = "LargeList" ->
            LET child == from_arrow_data_type(n.field.data_type)
            IN  IF child = Panic THEN Panic ELSE LargeList(child)
      [] n.arrow = "Map" ->
            IF n.field.data_type.arrow # "Struct"
            THEN Panic      \* panic!("Expected DataType::Struct ...")
            ELSE LET fields == n.field.data_type.fields
                 IN  IF Len(fields) < 1
                     THEN Panic     \* fields[0]: index out of bounds
                     ELSE LET key_type == from_arrow_data_type(fields[1].data_type)
                          IN  IF key_type = Panic
                              THEN Panic
                              ELSE IF Len(fields) < 2
                                   THEN Panic   \* fields[1]: index out of bounds
                                   ELSE LET value_type ==
                                                from_arrow_data_type(fields[2].data_type)
                                        IN  IF value_type = Panic
                                            THEN Panic
                                            ELSE Map(key_type, value_type)
      [] n.arrow = "Struct" ->
            LET member_types == [i \in 1..Len(n.fields) |->
                                    from_arrow_data_type(n.fields[i].data_type)]
            IN  IF AnyPanic(member_types)
                THEN Panic
                ELSE from_arrow_struct(n.fields, member_types)
      [] n.arrow = "Union" ->
            LET member_types == [i \in 1..Len(n.union_fields) |->
                                    from_arrow_data_type(n.union_fields[i][2].data_type)]
            IN  IF AnyPanic(member_types)
                THEN Panic
                ELSE from_arrow_union(n.union_fields, member_types, n.mode)
      [] OTHER -> from_arrow_simple(n.arrow)

(***************************************************************************)
(* Field and DataSourceSchema                                              *)
(***************************************************************************)
\* Option::unwrap_or
unwrap_or(option, default) == IF option = None THEN default ELSE option[1]

Field(name, data_type, nullable) ==
    [name |-> name, data_type |-> data_type, nullable |-> nullable]

\* to_arrow_field with an absent `nullable` taken for false
to_arrow_field_not_nullable(self) ==
    ArrowField(self.name, to_arrow_data_type(self.data_type),
               unwrap_or(self.nullable, FALSE))

to_arrow_field(self) ==
    ArrowField(self.name, to_arrow_data_type(self.data_type),
               unwrap_or(self.nullable, TRUE))

from_arrow_field(field) ==
    LET data_type == from_arrow_data_type(field.data_type)
    IN  IF data_type = Panic
        THEN Panic
        ELSE Field(field.name, data_type, Some(field.nullable))

\* the for loop of to_arrow_schema: one push per field, in order
RECURSIVE push_arrow_fields(_, _)
push_arrow_fields(schema_fields, fields) ==
    IF fields = <<>>
    THEN [fields |-> schema_fields]     \* arrow::datatypes::Schema::new
    ELSE push_arrow_fields(
            Append(schema_fields,
                   ArrowField(Head(fields).name,
                              to_arrow_data_type(Head(fields).data_type),
                              unwrap_or(Head(fields).nullable, TRUE))),
            Tail(fields))

\* to_arrow_schema inserting each field in front of those converted before
to_arrow_schema_reversed(self) ==
    LET pushed == push_arrow_fields(<<>>, self.fields).fields
    IN  [fields |-> [i \in 1..Len(pushed) |-> pushed[Len(pushed) + 1 - i]]]

to_arrow_schema(self) == push_arrow_fields(<<>>, self.fields)

\* the for loop of from_arrow_schema: one push per field, in order
RECURSIVE push_fields(_, _)
push_fields(fields, arrow_fields) ==
    IF arrow_fields = <<>>
    THEN [fields |-> fields]            \* Self { fields }
    ELSE LET field == from_arrow_field(Head(arrow_fields))
         IN  IF field = Panic
             THEN Panic
             ELSE push_fields(Append(fields, field), Tail(arrow_fields))

from_arrow_schema(arrow_schema_ref) == push_fields(<<>>, arrow_schema_ref.fields)

(***************************************************************************)
(* The callers' inputs.  A type is built from a seed by nesting it, one    *)
(* level per step; `path` records where the seed sits inside the result.   *)
(***************************************************************************)
\* selectors of a path
Item == <<"item", 0>>
Key == <<"key", 0>>
Value == <<"value", 0>>
Entry == <<"entry", 0>>
Member(i) == <<"member", i>>

\* the external type at position p of t
RECURSIVE At(_, _)
At(t, p) ==
    IF p = <<>> THEN t
    ELSE LET s == Head(p)
         IN  CASE t.kind \in {"List", "LargeList"} /\ s = Item ->
                    At(t.child_type, Tail(p))
               [] t.kind = "Map" /\ s = Key -> At(t.key_type, Tail(p))
               [] t.kind = "Map" /\ s = Value -> At(t.value_type, Tail(p))
               [] t.kind = "Struct" /\ s[1] = "member" /\ s[2] \in 1..Len(t.fields) ->
                    At(t.fields[s[2]][2], Tail(p))
               [] t.kind = "Union" /\ s[1] = "member"
                                   /\ s[2] \in 1..Len(t.union_type.types) ->
                    At(t.union_type.types[s[2]][2], Tail(p))
               [] OTHER -> NoValue

\* the Arrow type at position p of n
RECURSIVE ArrowAt(_, _)
ArrowAt(n, p) ==
    IF p = <<>> THEN n
    ELSE LET s == Head(p)
         IN  CASE n.arrow \in {"List", "LargeList"} /\ s = Item ->
                    ArrowAt(n.field.data_type, Tail(p))
               [] n.arrow = "Map" /\ s = Entry -> ArrowAt(n.field.data_type, Tail(p))
               [] n.arrow = "Map" /\ s = Key ->
                    ArrowAt(n.field.data_type.fields[1].data_type, Tail(p))
               [] n.arrow = "Map" /\ s = Value ->
                    ArrowAt(n.field.data_type.fields[2].data_type, Tail(p))
               [] n.arrow = "Struct" /\ s[1] = "member" /\ s[2] \in 1..Len(n.fields) ->
                    ArrowAt(n.fields[s[2]].data_type, Tail(p))
               [] n.arrow = "Union" /\ s[1] = "member"
                                    /\ s[2] \in 1..Len(n.union_fields) ->
                    ArrowAt(n.union_fields[s[2]][2].data_type, Tail(p))
               [] OTHER -> NoValue

\* i8 type ids of the generated unions, pairwise distinct within a union
\* (UnionFields::new is given distinct ids)
UnionTags == {0, 2, 127}
TagSeqs ==
    {<<>>}
    \cup {<<a>> : a \in UnionTags}
    \cup {<<a, b>> : <<a, b>> \in {x \in UnionTags \X UnionTags : x[1] # x[2]}}
    \cup {<<a, b, c>> : <<a, b, c>> \in
            {x \in UnionTags \X UnionTags \X UnionTags :
                x[1] # x[2] /\ x[1] # x[3] /\ x[2] # x[3]}}

\* member types of the generated unions, by position
UnionMembers ==
    <<Simple("Int32"), Simple("String"),
      [kind |-> "Decimal128", decimal_type |-> [precision |-> 38, scale |-> 127]]>>

SeedUnions ==
    {Union(UnionType([i \in 1..Len(ids) |-> <<ids[i], UnionMembers[i]>>], m)) :
        ids \in TagSeqs, m \in UnionMode}

\* the seeds nested up to MaxRichDepth levels
RichSeeds == DataTypeLeaves \cup SeedUnions \cup {Struct(<<>>)}

\* the seeds nested up to MaxDepth levels
DeepSeeds ==
    {Simple("Int32"), Simple("Unknown"), Simple("Integer"),
     [kind |-> "Timestamp",
      timestamp_type |-> [unit |-> "Microsecond", timezone |-> Some("UTC")]]}

\* Arrow types with no external variant
ExoticArrowTypes ==
    {ArrowSimple("Null"), ArrowSimple("Binary"), ArrowSimple("LargeUtf8"),
     [arrow |-> "FixedSizeList",
      field |-> ArrowField("item", ArrowSimple("Int32"), TRUE), size |-> 2],
     [arrow |-> "Dictionary", key |-> ArrowSimple("Int32"), value |-> ArrowSimple("Utf8")]}

ArrowTimeUnit ==
    {"TimeUnit::Second", "TimeUnit::Millisecond", "TimeUnit::Microsecond",
     "TimeUnit::Nanosecond"}
ArrowIntervalUnit ==
    {"IntervalUnit::YearMonth", "IntervalUnit::DayTime", "IntervalUnit::MonthDayNano"}

\* the Arrow kinds from_arrow_data_type has an arm for
MappedArrowKinds ==
    {"Boolean", "Int8", "Int16", "Int32", "Int64", "UInt8", "UInt16", "UInt32",
     "UInt64", "Float16", "Float32", "Float64", "Decimal128", "Decimal256",
     "Timestamp", "Date32", "Date64", "Time32", "Time64", "Duration", "Interval",
     "Utf8", "List", "LargeList", "Map", "Struct", "Union"}

ArrowMap(field, keys_sorted) ==
    [arrow |-> "Map", field |-> field, keys_sorted |-> keys_sorted]
ArrowStruct(fields) == [arrow |-> "Struct", fields |-> fields]

\* a Map whose entry field is not a struct of at least two fields
MalformedMaps ==
    {ArrowMap(ArrowField("entries", ArrowSimple("Int32"), FALSE), FALSE),
     ArrowMap(ArrowField("entries", ArrowStruct(<<>>), FALSE), FALSE),
     ArrowMap(ArrowField("entries",
                         ArrowStruct(<<ArrowField("key", ArrowSimple("Utf8"), FALSE)>>),
                         FALSE), FALSE)}

\* well-formed Maps that to_arrow_data_type does not produce: other names and
\* flags, sorted keys, a third entry field
UnusualMaps ==
    {ArrowMap(ArrowField("entries",
                         ArrowStruct(<<ArrowField("keys", ArrowSimple("Utf8"), TRUE),
                                       ArrowField("values", ArrowSimple("Int32"), FALSE),
                                       ArrowField("extra", ArrowSimple("Null"), TRUE)>>),
                         TRUE), sorted) : sorted \in BOOLEAN}

ArrowLeaves ==
    {ArrowSimple(k) : k \in {"Boolean", "Int8", "Int16", "Int32", "Int64", "UInt8",
                             "UInt16", "UInt32", "UInt64", "Float16", "Float32",
                             "Float64", "Date32", "Date64", "Utf8"}}
    \cup [arrow : {"Decimal128", "Decimal256"}, precision : Precisions, scale : Scales]
    \cup [arrow : {"Timestamp"}, unit : ArrowTimeUnit,
          tz : {None, Some(ArcStr("UTC"))}]
    \cup [arrow : {"Time32", "Time64", "Duration"}, unit : ArrowTimeUnit]
    \cup [arrow : {"Interval"}, unit : ArrowIntervalUnit]

RichArrowSeeds ==
    ArrowLeaves \cup ExoticArrowTypes \cup MalformedMaps \cup UnusualMaps
    \cup {ArrowStruct(<<>>)}

DeepArrowSeeds ==
    {ArrowSimple("Int32"), ArrowSimple("Binary"),
     [arrow |-> "Dictionary", key |-> ArrowSimple("Int32"), value |-> ArrowSimple("Utf8")],
     ArrowMap(ArrowField("entries", ArrowStruct(<<>>), FALSE), FALSE)}

\* the seed of the input under construction
Seed == IF mode = "export" THEN At(ext, path) ELSE ArrowAt(arrow, path)

NestLimit == IF Seed \in DeepSeeds \cup DeepArrowSeeds THEN MaxDepth ELSE MaxRichDepth

CanNest(m) == mode = m /\ pc = "build" /\ depth < NestLimit
CanNestWide(m) == CanNest(m) /\ wide < MaxWide

(***************************************************************************)
(* Initial states: the caller holds a seed type, or an empty schema        *)
(***************************************************************************)
schema_vars == <<schema, arrow_schema, schema_back, arrow_field, field_back>>
type_vars == <<ext, arrow, imported, reexported, reimported, depth, wide, path>>

InitExport ==
    /\ mode = "export"
    /\ ext \in RichSeeds \cup DeepSeeds
    /\ arrow = NoValue

InitImport ==
    /\ mode = "import"
    /\ ext = NoValue
    /\ arrow \in RichArrowSeeds \cup DeepArrowSeeds

InitSchema ==
    /\ mode \in {"schema", "arrow_schema"}
    /\ ext = NoValue
    /\ arrow = NoValue

Init ==
    /\ InitExport \/ InitImport \/ InitSchema
    /\ pc = "build"
    /\ imported = NoValue
    /\ reexported = NoValue
    /\ reimported = NoValue
    /\ depth = 0
    /\ wide = 0
    /\ path = <<>>
    /\ schema = [fields |-> <<>>]
    /\ arrow_schema = [fields |-> <<>>]
    /\ schema_back = NoValue
    /\ arrow_field = NoValue
    /\ field_back = NoValue

(***************************************************************************)
(* Building an external DataType (the variants that hold other types)      *)
(***************************************************************************)
Nested(t, selector, is_wide) ==
    /\ ext' = t
    /\ path' = <<selector>> \o path
    /\ depth' = depth + 1
    /\ wide' = IF is_wide THEN wide + 1 ELSE wide
    /\ UNCHANGED <<mode, pc, arrow, imported, reexported, reimported>>
    /\ UNCHANGED schema_vars

NestList ==
    /\ CanNest("export")
    /\ Nested(List(ext), Item, FALSE)

NestLargeList ==
    /\ CanNestWide("export")
    /\ Nested(LargeList(ext), Item, TRUE)

NestMap ==
    /\ CanNestWide("export")
    /\ \/ Nested(Map(ext, Simple("String")), Key, TRUE)
       \/ Nested(Map(Simple("String"), ext), Value, TRUE)

NestStruct ==
    /\ CanNestWide("export")
    /\ \/ Nested(Struct(<< <<"a", ext>> >>), Member(1), TRUE)
       \/ Nested(Struct(<< <<"b", Simple("String")>>, <<"a", ext>> >>), Member(2), TRUE)

NestUnion ==
    /\ CanNestWide("export")
    /\ \E m \in UnionMode :
        \/ Nested(Union(UnionType(<< <<127, ext>>, <<2, Simple("String")>> >>, m)),
                  Member(1), TRUE)
        \/ Nested(Union(UnionType(<< <<0, Simple("Date")>>, <<2, ext>> >>, m)),
                  Member(2), TRUE)

(***************************************************************************)
(* Building an Arrow DataType, as the engine may hand it over              *)
(***************************************************************************)
ArrowNested(n, selector, is_wide) ==
    /\ arrow' = n
    /\ path' = <<selector>> \o path
    /\ depth' = depth + 1
    /\ wide' = IF is_wide THEN wide + 1 ELSE wide
    /\ UNCHANGED <<mode, pc, ext, imported, reexported, reimported>>
    /\ UNCHANGED schema_vars

ArrowNestList ==
    \/ /\ CanNest("import")
       /\ ArrowNested([arrow |-> "List", field |-> ArrowField("item", arrow, TRUE)],
                      Item, FALSE)
    \/ /\ CanNestWide("import")
       /\ \/ ArrowNested([arrow |-> "List",
                          field |-> ArrowField("element", arrow, FALSE)], Item, TRUE)
          \/ ArrowNested([arrow |-> "LargeList",
                          field |-> ArrowField("item", arrow, TRUE)], Item, TRUE)

ArrowNestStruct ==
    /\ CanNestWide("import")
    /\ \/ ArrowNested(ArrowStruct(<<ArrowField("a", arrow, FALSE)>>), Member(1), TRUE)
       \/ ArrowNested(ArrowStruct(<<ArrowField("a", ArrowSimple("LargeUtf8"), TRUE),
                                    ArrowField("b", arrow, FALSE)>>), Member(2), TRUE)

ArrowNestUnion ==
    /\ CanNestWide("import")
    /\ \E m \in {"UnionMode::Sparse", "UnionMode::Dense"} :
        ArrowNested([arrow |-> "Union",
                     union_fields |-> << <<5, ArrowField("x", arrow, FALSE)>>,
                                         <<2, ArrowField("", ArrowSimple("Utf8"), TRUE)>> >>,
                     mode |-> m], Member(1), TRUE)

\* a Map with the expected entry struct
ArrowNestMap ==
    /\ CanNestWide("import")
    /\ \/ ArrowNested(ArrowMap(ArrowField("entries",
                        ArrowStruct(<<ArrowField("key", arrow, FALSE),
                                      ArrowField("value", ArrowSimple("Null"), TRUE)>>),
                        FALSE), TRUE), Key, TRUE)
       \/ ArrowNested(ArrowMap(ArrowField("entries",
                        ArrowStruct(<<ArrowField("key", ArrowSimple("Utf8"), FALSE),
                                      ArrowField("value", arrow, TRUE),
                                      ArrowField("extra", ArrowSimple("Int8"), TRUE)>>),
                        FALSE), FALSE), Value, TRUE)

\* a Map whose entry field holds the type itself, or a struct of one field
ArrowNestOddMap ==
    /\ CanNestWide("import")
    /\ \/ ArrowNested(ArrowMap(ArrowField("entries", arrow, FALSE), FALSE), Entry, TRUE)
       \/ ArrowNested(ArrowMap(ArrowField("entries",
                        ArrowStruct(<<ArrowField("key", arrow, FALSE)>>), FALSE), FALSE),
                      Key, TRUE)

(***************************************************************************)
(* The conversions of a DataType                                           *)
(***************************************************************************)
AfterImport(result) == IF result = Panic THEN "aborted" ELSE "imported"

ToArrowDataType ==
    \/ /\ mode = "export" /\ pc = "build"
       /\ arrow' = to_arrow_data_type(ext)
       /\ pc' = "exported"
       /\ UNCHANGED <<mode, ext, imported, reexported, reimported, depth, wide, path>>
       /\ UNCHANGED schema_vars
    \/ /\ mode = "import" /\ pc = "imported"
       /\ reexported' = to_arrow_data_type(imported)
       /\ pc' = "reexported"
       /\ UNCHANGED <<mode, ext, arrow, imported, reimported, depth, wide, path>>
       /\ UNCHANGED schema_vars

FromArrowDataType ==
    \/ /\ \/ mode = "export" /\ pc = "exported"
          \/ mode = "import" /\ pc = "build"
       /\ imported' = from_arrow_data_type(arrow)
       /\ pc' = AfterImport(imported')
       /\ UNCHANGED <<mode, ext, arrow, reexported, reimported, depth, wide, path>>
       /\ UNCHANGED schema_vars
    \/ /\ mode = "import" /\ pc = "reexported"
       /\ reimported' = from_arrow_data_type(reexported)
       /\ pc' = IF reimported' = Panic THEN "aborted" ELSE "reimported"
       /\ UNCHANGED <<mode, ext, arrow, imported, reexported, depth, wide, path>>
       /\ UNCHANGED schema_vars

(***************************************************************************)
(* Building a DataSourceSchema, or the Arrow schema of the engine          *)
(***************************************************************************)
FieldNames == {"a", "b"}
Nullables == {None, Some(TRUE), Some(FALSE)}

SchemaTypes ==
    {Simple("Int32"), Simple("Integer"), Map(Simple("String"), Simple("Int32"))}

ArrowSchemaTypes ==
    {ArrowSimple("Int32"), ArrowSimple("LargeUtf8"),
     [arrow |-> "List", field |-> ArrowField("element", ArrowSimple("Utf8"), FALSE)],
     ArrowMap(ArrowField("entries", ArrowSimple("Int32"), FALSE), FALSE)}

PushField ==
    /\ mode = "schema" /\ pc = "build"
    /\ Len(schema.fields) < MaxFields
    /\ \E name \in FieldNames, data_type \in SchemaTypes, nullable \in Nullables :
        schema' = [fields |-> Append(schema.fields, Field(name, data_type, nullable))]
    /\ UNCHANGED <<mode, pc, arrow_schema, schema_back, arrow_field, field_back>>
    /\ UNCHANGED type_vars

PushArrowField ==
    /\ mode = "arrow_schema" /\ pc = "build"
    /\ Len(arrow_schema.fields) < MaxFields
    /\ \E name \in FieldNames, data_type \in ArrowSchemaTypes, nullable \in BOOLEAN :
        arrow_schema' =
            [fields |-> Append(arrow_schema.fields, ArrowField(name, data_type, nullable))]
    /\ UNCHANGED <<mode, pc, schema, schema_back, arrow_field, field_back>>
    /\ UNCHANGED type_vars

(***************************************************************************)
(* The conversions of a Field and of a schema                              *)
(***************************************************************************)
\* Field::to_arrow_field of the field pushed last
ToArrowField ==
    /\ mode = "schema" /\ pc = "build"
    /\ schema.fields # <<>>
    /\ arrow_field' = to_arrow_field(schema.fields[Len(schema.fields)])
    /\ pc' = "field_exported"
    /\ UNCHANGED <<mode, schema, arrow_schema, schema_back, field_back>>
    /\ UNCHANGED type_vars

\* Field::from_arrow_field of an exported field, or of the Arrow field pushed last
FromArrowField ==
    /\ \/ /\ mode = "schema" /\ pc = "field_exported"
          /\ UNCHANGED arrow_field
       \/ /\ mode = "arrow_schema" /\ pc = "build"
          /\ arrow_schema.fields # <<>>
          /\ arrow_field' = arrow_schema.fields[Len(arrow_schema.fields)]
    /\ field_back' = from_arrow_field(arrow_field')
    /\ pc' = IF field_back' = Panic THEN "aborted" ELSE "field_imported"
    /\ UNCHANGED <<mode, schema, arrow_schema, schema_back>>
    /\ UNCHANGED type_vars

ToArrowSchema ==
    /\ mode = "schema" /\ pc = "build"
    /\ arrow_schema' = to_arrow_schema(schema)
    /\ pc' = "exported"
    /\ UNCHANGED <<mode, schema, schema_back, arrow_field, field_back>>
    /\ UNCHANGED type_vars

FromArrowSchema ==
    /\ \/ mode = "schema" /\ pc = "exported"
       \/ mode = "arrow_schema" /\ pc = "build"
    /\ schema_back' = from_arrow_schema(arrow_schema)
    /\ pc' = AfterImport(schema_back')
    /\ UNCHANGED <<mode, schema, arrow_schema, arrow_field, field_back>>
    /\ UNCHANGED type_vars

TypeNext ==
    \/ NestList \/ NestLargeList \/ NestMap \/ NestStruct \/ NestUnion
    \/ ArrowNestList \/ ArrowNestStruct \/ ArrowNestUnion \/ ArrowNestMap
    \/ ArrowNestOddMap
    \/ ToArrowDataType \/ FromArrowDataType

SchemaNext ==
    \/ PushField \/ PushArrowField
    \/ ToArrowField \/ FromArrowField
    \/ ToArrowSchema \/ FromArrowSchema

Next == TypeNext \/ SchemaNext

Spec == Init /\ [][Next]_vars

(***************************************************************************)
(* Vocabulary of the properties                                            *)
(***************************************************************************)
Unknown == Simple("Unknown")

\* t holds no alias variant at any depth
RECURSIVE NoAlias(_)
NoAlias(t) ==
    /\ t.kind \notin AliasKinds
    /\ CASE t.kind \in {"List", "LargeList"} -> NoAlias(t.child_type)
         [] t.kind = "Map" -> NoAlias(t.key_type) /\ NoAlias(t.value_type)
         [] t.kind = "Struct" -> \A i \in DOMAIN t.fields : NoAlias(t.fields[i][2])
         [] t.kind = "Union" ->
                \A i \in DOMAIN t.union_type.types : NoAlias(t.union_type.types[i][2])
         [] OTHER -> TRUE

\* t with every alias variant replaced by the variant it is documented to stand
\* for: Integer -> Int64, Float -> Float64, Decimal -> Decimal256, Date -> Date64,
\* Time -> Time32
RECURSIVE Canonical(_)
Canonical(t) ==
    CASE t.kind = "Integer" -> Simple("Int64")
      [] t.kind = "Float" -> Simple("Float64")
      [] t.kind = "Date" -> Simple("Date64")
      [] t.kind = "Decimal" -> [kind |-> "Decimal256", decimal_type |-> t.decimal_type]
      [] t.kind = "Time" -> [kind |-> "Time32", time_type |-> t.time_type]
      [] t.kind = "List" -> List(Canonical(t.child_type))
      [] t.kind = "LargeList" -> LargeList(Canonical(t.child_type))
      [] t.kind = "Map" -> Map(Canonical(t.key_type), Canonical(t.value_type))
      [] t.kind = "Struct" ->
            Struct([i \in 1..Len(t.fields) |->
                        <<t.fields[i][1], Canonical(t.fields[i][2])>>])
      [] t.kind = "Union" ->
            Union(UnionType([i \in 1..Len(t.union_type.types) |->
                                <<t.union_type.types[i][1],
                                  Canonical(t.union_type.types[i][2])>>],
                            t.union_type.mode))
      [] OTHER -> t

\* every Map that the import of n visits has an entry struct of two fields or more
RECURSIVE WellFormedMaps(_)
WellFormedMaps(n) ==
    CASE n.arrow \in {"List", "LargeList"} -> WellFormedMaps(n.field.data_type)
      [] n.arrow = "Map" ->
            /\ n.field.data_type.arrow = "Struct"
            /\ Len(n.field.data_type.fields) >= 2
            /\ WellFormedMaps(n.field.data_type.fields[1].data_type)
            /\ WellFormedMaps(n.field.data_type.fields[2].data_type)
      [] n.arrow = "Struct" -> \A i \in DOMAIN n.fields : WellFormedMaps(n.fields[i].data_type)
      [] n.arrow = "Union" ->
            \A i \in DOMAIN n.union_fields : WellFormedMaps(n.union_fields[i][2].data_type)
      [] OTHER -> TRUE

TypeMode == mode \in {"export", "import"}
\* from_arrow_data_type(arrow) has returned
Imported == TypeMode /\ pc \in {"imported", "reexported", "reimported"}
\* to_arrow_data_type(ext) has returned
Exported == mode = "export" /\ pc \in {"exported", "imported"}

TagsOf(union_type) == [i \in 1..Len(union_type.types) |-> union_type.types[i][1]]

\* the prefixes of the path, the whole path excluded
Enclosing == {SubSeq(path, 1, k) : k \in 0..(Len(path) - 1)}

(***************************************************************************)
(* C1: a type built from non-alias variants only, nested up to MaxDepth    *)
(* levels, comes back from export and import structurally equal to itself, *)
(* and neither conversion fails.                                           *)
(***************************************************************************)
C1_RoundTrip ==
    /\ mode = "export" => pc # "aborted"
    /\ (mode = "export" /\ pc = "imported" /\ NoAlias(ext)) => imported = ext

C1_Witness ==
    /\ mode = "export" /\ pc = "imported"
    /\ NoAlias(ext)
    /\ depth >= 10 /\ wide >= 1
    /\ ext.kind = "List"
    /\ At(ext, path) = Unknown
    /\ imported = ext

(***************************************************************************)
(* C2: the import of an Arrow Map whose entry field is not a struct of at  *)
(* least two fields reports an error to the caller and never aborts, at    *)
(* the top level, nested, or inside a schema given to from_arrow_schema.   *)
(* from_arrow_data_type has no error result, so the claim is that the      *)
(* caller is never aborted.                                                *)
(***************************************************************************)
C2_MalformedMapIsReported ==
    /\ (mode = "import" /\ pc # "build" /\ ~WellFormedMaps(arrow)) =>
            (imported # Panic /\ pc # "aborted")
    /\ (mode = "arrow_schema" /\ pc # "build") => pc # "aborted"

(***************************************************************************)
(* C3: an alias variant exports as its canonical variant does, and comes   *)
(* back as the canonical variant; no import ever yields an alias variant.  *)
(***************************************************************************)
C3_AliasCanonical ==
    /\ Exported => arrow = to_arrow_data_type(Canonical(ext))
    /\ (mode = "export" /\ pc = "imported") => imported = Canonical(ext)
    /\ Imported => NoAlias(imported)
    /\ (TypeMode /\ pc = "reimported") => NoAlias(reimported)

C3_Witness ==
    /\ mode = "export" /\ pc = "imported"
    /\ ext.kind = "Decimal"
    /\ arrow.arrow = "Decimal256"
    /\ imported.kind = "Decimal256"
    /\ imported.decimal_type = ext.decimal_type

(***************************************************************************)
(* C4 as stated: Unknown exports as Binary and no Arrow type imports as    *)
(* Unknown.                                                                *)
(***************************************************************************)
C4_NoImportIsUnknown ==
    /\ (Exported /\ ext = Unknown) => arrow = ArrowSimple("Binary")
    /\ Imported => imported # Unknown

(***************************************************************************)
(* C4 amended: Unknown exports as Binary, and an Arrow type imports as     *)
(* Unknown exactly when from_arrow_data_type has no arm for its kind;      *)
(* Binary is such a kind, so Unknown comes back as Unknown.                *)
(***************************************************************************)
C4_UnknownIffNoArm ==
    /\ (Exported /\ ext = Unknown) => arrow = ArrowSimple("Binary")
    /\ Imported => (imported = Unknown <=> arrow.arrow \notin MappedArrowKinds)
    /\ (mode = "export" /\ pc = "imported" /\ ext = Unknown) => imported = Unknown

C4_Witness ==
    /\ mode = "export" /\ pc = "imported"
    /\ ext = Unknown
    /\ arrow = ArrowSimple("Binary")
    /\ imported = Unknown

(***************************************************************************)
(* C5: an Arrow type with no external variant imports as Unknown without   *)
(* failing, at the top level and as a List or LargeList element, a Struct  *)
(* or Union member or the key or value of a well-formed Map; the           *)
(* composites around it are imported as themselves.                        *)
(***************************************************************************)
C5_ExoticIsUnknown ==
    (/\ mode = "import" /\ pc # "build"
     /\ Seed \in ExoticArrowTypes
     /\ \A i \in DOMAIN path : path[i] # Entry
     /\ WellFormedMaps(arrow))
    => /\ pc # "aborted"
       /\ imported # Panic
       /\ At(imported, path) = Unknown
       /\ \A q \in Enclosing : At(imported, q).kind = ArrowAt(arrow, q).arrow

C5_Witness ==
    /\ mode = "import" /\ pc = "imported"
    /\ Seed = ArrowSimple("Binary")
    /\ depth >= 3
    /\ Head(path) = Item
    /\ path[Len(path)] = Value
    /\ imported.kind = "List"
    /\ At(imported, path) = Unknown

C7_MapEncoding ==
    (Exported /\ ext.kind = "Map")
    => /\ arrow.arrow = "Map"
       /\ arrow.field.nullable = FALSE
       /\ arrow.field.data_type.arrow = "Struct"
       /\ LET fields == arrow.field.data_type.fields
          IN  /\ Len(fields) = 2
              /\ fields[1].name = "key"
              /\ fields[1].data_type = to_arrow_data_type(ext.key_type)
              /\ fields[1].nullable = FALSE
              /\ fields[2].name = "value"
              /\ fields[2].data_type = to_arrow_data_type(ext.value_type)
              /\ fields[2].nullable = TRUE
              /\ pc = "imported" =>
                    imported = Map(from_arrow_data_type(fields[1].data_type),
                                   from_arrow_data_type(fields[2].data_type))
       /\ (pc = "imported" /\ ext = Map(Simple("String"), Simple("Int32")))
            => imported = ext

C7_Witness ==
    /\ mode = "export" /\ pc = "imported"
    /\ ext = Map(Simple("String"), Simple("Int32"))
    /\ arrow.field.data_type.fields[2].nullable
    /\ imported = ext

(***************************************************************************)
(* C8: a Field without `nullable` exports as a nullable Arrow field, one   *)
(* with Some(b) exports with flag b, by to_arrow_field and by              *)
(* to_arrow_schema; every imported Field carries Some(b), b the flag of    *)
(* the Arrow field, by from_arrow_field and by from_arrow_schema.          *)
(***************************************************************************)
ExportedFlag(field) == IF field.nullable = None THEN TRUE ELSE field.nullable[1]

C8_Nullability ==
    /\ (mode = "schema" /\ pc \in {"field_exported", "field_imported"}) =>
            arrow_field.nullable = ExportedFlag(schema.fields[Len(schema.fields)])
    /\ (mode = "schema" /\ pc \in {"exported", "imported"}) =>
            \A i \in DOMAIN schema.fields :
                arrow_schema.fields[i].nullable = ExportedFlag(schema.fields[i])
    /\ pc = "field_imported" =>
            /\ field_back.nullable # None
            /\ field_back.nullable = Some(arrow_field.nullable)
    /\ (mode \in {"schema", "arrow_schema"} /\ pc = "imported") =>
            \A i \in DOMAIN schema_back.fields :
                /\ schema_back.fields[i].nullable # None
                /\ schema_back.fields[i].nullable = Some(arrow_schema.fields[i].nullable)

C8_Witness ==
    /\ mode = "schema" /\ pc = "imported"
    /\ Len(schema.fields) = 2
    /\ schema.fields[1].nullable = None
    /\ schema.fields[2].nullable = Some(FALSE)
    /\ arrow_schema.fields[1].nullable
    /\ schema_back.fields[1].nullable = Some(TRUE)
    /\ schema_back.fields[2].nullable = Some(FALSE)

(***************************************************************************)
(* C9: to_arrow_schema and from_arrow_schema return as many fields as they *)
(* are given, the i-th with the name and the converted type of the i-th    *)
(* given; an empty schema comes back empty.                                *)
(***************************************************************************)
C9_SchemaOrder ==
    /\ (mode = "schema" /\ pc \in {"exported", "imported"}) =>
            /\ Len(arrow_schema.fields) = Len(schema.fields)
            /\ \A i \in DOMAIN schema.fields :
                /\ arrow_schema.fields[i].name = schema.fields[i].name
                /\ arrow_schema.fields[i].data_type =
                        to_arrow_data_type(schema.fields[i].data_type)
    /\ (mode \in {"schema", "arrow_schema"} /\ pc = "imported") =>
            /\ Len(schema_back.fields) = Len(arrow_schema.fields)
            /\ \A i \in DOMAIN arrow_schema.fields :
                /\ schema_back.fields[i].name = arrow_schema.fields[i].name
                /\ schema_back.fields[i].data_type =
                        from_arrow_data_type(arrow_schema.fields[i].data_type)
    /\ (mode = "schema" /\ pc = "imported" /\ schema.fields = <<>>) =>
            schema_back.fields = <<>>

C9_Witness ==
    /\ mode = "schema" /\ pc = "imported"
    /\ Len(schema.fields) = 2
    /\ schema.fields[1].name = "b" /\ schema.fields[2].name = "b"
    /\ schema.fields[1].data_type = Simple("Integer")
    /\ schema.fields[2].data_type = Map(Simple("String"), Simple("Int32"))
    /\ schema_back.fields[1].data_type = Simple("Int64")
    /\ schema_back.fields[2].data_type = Map(Simple("String"), Simple("Int32"))

(***************************************************************************)
(* C10: when the import of an Arrow type returns, exporting the result and *)
(* importing it again returns the same result, although the export may     *)
(* differ from the Arrow type given.                                       *)
(***************************************************************************)
C10_ImportStable ==
    /\ (mode = "import" /\ pc = "aborted") => (imported = Panic /\ reexported = NoValue)
    /\ (mode = "import" /\ pc = "reimported") => reimported = imported

C10_Witness ==
    /\ mode = "import" /\ pc = "reimported"
    /\ arrow.arrow = "Map"
    /\ arrow.keys_sorted
    /\ Len(arrow.field.data_type.fields) = 3
    /\ reexported # arrow
    /\ reimported = imported

====
